---- MODULE Spec2Model ----
(***************************************************************************)
(* A model of streamlit_app.py, the Fairfax real-estate sales dashboard.   *)
(*                                                                         *)
(* The script is re-executed from its first line on every widget change.   *)
(* What survives a rerun is the st.cache_data entry of load_data() and the *)
(* widgets' session state; every other name of the script is rebuilt.      *)
(* One action models one block of the script (the blocks its "# ---"       *)
(* comments delimit); the user's widget changes are the remaining actions. *)
(*                                                                         *)
(* Conventions of the model:                                               *)
(*  - a string is a sequence of one-character strings, so that strip(),    *)
(*    upper() and sorted() are computed character by character;            *)
(*  - a nullable database value is << >> (NULL) or << v >>;                *)
(*  - a float is an exact fraction [kind, num, den] in lowest terms, or    *)
(*    NaN, or +inf; prices are non-negative integers small enough that     *)
(*    binary rounding plays no part;                                       *)
(*  - price, sale_date and property_id are never NULL: the specification   *)
(*    leaves the handling of a missing price open, and stored sale_date    *)
(*    texts are UTC ("Z") or carry no offset;                              *)
(*  - a timestamp is an instant counted in half days on a calendar of      *)
(*    12 months of 31 days: ((y*12 + m-1)*31 + d-1)*2 + h, with h = 0 for  *)
(*    midnight and h = 1 for noon.                                         *)
(***************************************************************************)
EXTENDS Integers, Sequences, FiniteSets, TLC

VARIABLES
    db,               \* table "sales" of the SQLite file: a sequence of raw rows
    cache,            \* st.cache_data entry of load_data(): << >> or << df >>
    session,          \* widget state: [validity, start, end], each << >> or << v >>
    sort_kind,        \* how the installed sort orders equal keys
    pc,               \* the block of the script that runs next
    err,              \* the exception that ended the run ("" if none)
    df,               \* load_data()'s result in this run
    validity_options, validity_filter,
    min_date, max_date, start_date, end_date,
    filtered_df, kpi, monthly_avg, heatmap_df, top_props, hist_df, yoy, table

fixed    == <<db, sort_kind>>
sidebar  == <<validity_options, validity_filter, min_date, max_date,
              start_date, end_date>>
outputs  == <<filtered_df, kpi, monthly_avg, heatmap_df, top_props, hist_df,
              yoy, table>>
vars     == <<db, sort_kind, cache, session, pc, err, df, validity_options,
              validity_filter, min_date, max_date, start_date, end_date,
              filtered_df, kpi, monthly_avg, heatmap_df, top_props, hist_df,
              yoy, table>>

-----------------------------------------------------------------------------
(* Bounds of the model and constants of the program.                       *)

MaxRows   == 2          \* rows of a table drawn from a row domain
MaxProps  == 18         \* distinct properties of a table of the top-N family
TopN      == 10         \* .head(10)
TableLimit == 100       \* .head(100)
HistCutoff == 1500000   \* filtered_df['price'] < 1_500_000

-----------------------------------------------------------------------------
(* Sequences.                                                              *)

Range(s) == {s[i] : i \in 1..Len(s)}

Min(S) == CHOOSE x \in S : \A y \in S : x <= y
Max(S) == CHOOSE x \in S : \A y \in S : x >= y

RECURSIVE SetToSortedSeq(_)
\* The elements of a finite set of integers in ascending order.
SetToSortedSeq(S) ==
    IF S = {} THEN << >>
    ELSE LET m == Min(S) IN <<m>> \o SetToSortedSeq(S \ {m})

RECURSIVE SumSeq(_)
SumSeq(s) == IF s = << >> THEN 0 ELSE Head(s) + SumSeq(Tail(s))

\* s[:n]
HeadN(s, n) == SubSeq(s, 1, IF Len(s) < n THEN Len(s) ELSE n)

\* The values of f over s, in first-encountered order, without repeats.
RECURSIVE UniqueOf(_)
UniqueOf(s) ==
    IF s = << >> THEN << >>
    ELSE LET r == UniqueOf(SubSeq(s, 1, Len(s) - 1))
             x == s[Len(s)]
         IN  IF x \in Range(r) THEN r ELSE Append(r, x)

-----------------------------------------------------------------------------
(* Characters and strings.                                                 *)

CharTable ==
    << <<" ", 32>>, <<"-", 45>>,
       <<"0", 48>>, <<"1", 49>>, <<"2", 50>>, <<"3", 51>>, <<"4", 52>>,
       <<"5", 53>>, <<"6", 54>>, <<"7", 55>>, <<"8", 56>>, <<"9", 57>>,
       <<"A", 65>>, <<"D", 68>>, <<"I", 73>>, <<"K", 75>>, <<"L", 76>>,
       <<"N", 78>>, <<"O", 79>>, <<"U", 85>>, <<"V", 86>>, <<"W", 87>>,
       <<"a", 97>>, <<"d", 100>>, <<"i", 105>>, <<"k", 107>>, <<"l", 108>>,
       <<"n", 110>>, <<"o", 111>>, <<"u", 117>>, <<"v", 118>>, <<"w", 119>> >>

\* ord(c)
CharCode(c) == (CHOOSE p \in Range(CharTable) : p[1] = c)[2]
\* chr(n)
CharOf(n) == (CHOOSE p \in Range(CharTable) : p[2] = n)[1]

IsLower(c) == CharCode(c) >= 97 /\ CharCode(c) <= 122
IsSpace(c) == c = " "

\* str.upper(), one character
UpperChar(c) == IF IsLower(c) THEN CharOf(CharCode(c) - 32) ELSE c

\* Series.str.upper()
StrUpper(s) == [i \in 1..Len(s) |-> UpperChar(s[i])]

\* Series.str.strip(): whitespace removed at both ends
RECURSIVE LStrip(_)
LStrip(s) == IF s # << >> /\ IsSpace(Head(s)) THEN LStrip(Tail(s)) ELSE s
RECURSIVE RStrip(_)
RStrip(s) ==
    IF s # << >> /\ IsSpace(s[Len(s)]) THEN RStrip(SubSeq(s, 1, Len(s) - 1))
    ELSE s
StrStrip(s) == RStrip(LStrip(s))

\* Python's < on str: by code point, a proper prefix first
RECURSIVE StrLess(_, _)
StrLess(a, b) ==
    IF b = << >> THEN FALSE
    ELSE IF a = << >> THEN TRUE
    ELSE IF CharCode(Head(a)) # CharCode(Head(b))
         THEN CharCode(Head(a)) < CharCode(Head(b))
    ELSE StrLess(Tail(a), Tail(b))

\* sorted() of a set of strings
RECURSIVE SortedStrings(_)
SortedStrings(S) ==
    IF S = {} THEN << >>
    ELSE LET m == CHOOSE x \in S : \A y \in S \ {x} : StrLess(x, y)
         IN  <<m>> \o SortedStrings(S \ {m})

Unknown == <<"U", "n", "k", "n", "o", "w", "n">>
VALID   == <<"V", "A", "L", "I", "D">>

-----------------------------------------------------------------------------
(* Timestamps.                                                             *)

Stamp(y, m, d, h) == ((y * 12 + (m - 1)) * 31 + (d - 1)) * 2 + h

\* Timestamp.date(): the calendar day of an instant
DateOf(ts) == ts \div 2
\* pd.to_datetime(date).tz_localize("UTC"): midnight UTC of a calendar day
LocalizeUTC(day) == [tz |-> "UTC", ts |-> day * 2]
\* .dt.year, .dt.month
YearOf(ts)  == ts \div (2 * 31 * 12)
MonthOf(ts) == ((ts \div (2 * 31)) % 12) + 1

\* One stored sale_date text, parsed. off is "" (no zone offset in the text)
\* or "Z" (an explicit UTC offset).
ParseStamp(text) == Stamp(text.y, text.m, text.d, text.h)

\* pd.to_datetime() of the column of stored texts: the zone of the resulting
\* column. Texts without an offset give a zone-naive column, texts with a UTC
\* offset a UTC column; a column mixing both cannot be converted.
ColumnZone(rows) ==
    LET offs == {rows[i].sale_date.off : i \in 1..Len(rows)}
    IN  IF offs \subseteq {""} THEN "naive"
        ELSE IF offs = {"Z"} THEN "UTC"
        ELSE "mixed"

-----------------------------------------------------------------------------
(* Floats.                                                                 *)

Abs(n) == IF n < 0 THEN -n ELSE n

RECURSIVE GCD(_, _)
GCD(a, b) == IF b = 0 THEN a ELSE GCD(b, a % b)

NaN == [kind |-> "nan", num |-> 0, den |-> 1]
Inf == [kind |-> "inf", num |-> 0, den |-> 1]
\* n / d, d > 0
Frac(n, d) ==
    LET g == GCD(Abs(n), d)
    IN  [kind |-> "num", num |-> n \div g, den |-> d \div g]

\* The integer nearest to n / d (d > 0), a tie going to the even one.
RoundHalfEven(n, d) ==
    LET q == n \div d
        r == n % d
    IN  IF 2 * r < d THEN q
        ELSE IF 2 * r > d THEN q + 1
        ELSE IF q % 2 = 0 THEN q ELSE q + 1

\* a / b on floats whose values are >= 0
FloatDiv(a, b) ==
    IF a.kind # "num" \/ b.kind # "num" THEN NaN
    ELSE IF b.num = 0 THEN (IF a.num = 0 THEN NaN ELSE Inf)
    ELSE Frac(a.num * b.den, a.den * b.num)
\* x - 1
FloatMinusOne(x) == IF x.kind # "num" THEN x ELSE Frac(x.num - x.den, x.den)
\* x * k, k > 0
FloatTimes(x, k) == IF x.kind # "num" THEN x ELSE Frac(x.num * k, x.den)
\* round(x, places) with 10^places = scale
FloatRound(x, scale) ==
    IF x.kind # "num" THEN x
    ELSE Frac(RoundHalfEven(x.num * scale, x.den), scale)

\* Series.sum(): 0 on an empty series
SeriesSum(prices) == SumSeq(prices)
\* Series.mean() as it would be with a zero returned for no rows
SeriesMeanZeroWhenEmpty(prices) ==
    IF Len(prices) = 0 THEN Frac(0, 1) ELSE Frac(SumSeq(prices), Len(prices))
\* Series.mean(): NaN on an empty series
SeriesMean(prices) ==
    IF Len(prices) = 0 THEN NaN ELSE Frac(SumSeq(prices), Len(prices))

Prices(rows) == [i \in 1..Len(rows) |-> rows[i].price]

-----------------------------------------------------------------------------
(* load_data()                                                             *)

\* Series.fillna(value)
FillNa(v, value) == IF v = << >> THEN value ELSE v[1]

\* df['sale_validity'].fillna("Unknown").str.strip().str.upper()
NormalizeValidity(v) == StrUpper(StrStrip(FillNa(v, Unknown)))

NormalizeRow(r) ==
    [property_id   |-> r.property_id,
     sale_date     |-> ParseStamp(r.sale_date),
     price         |-> r.price,
     tax_year      |-> r.tax_year,
     sale_validity |-> NormalizeValidity(r.sale_validity)]

\* The frame load_data() returns for a table it can convert.
load_data(rows) ==
    [tz   |-> ColumnZone(rows),
     rows |-> [i \in 1..Len(rows) |-> NormalizeRow(rows[i])]]

NoFrame == [tz |-> "none", rows |-> << >>]
NoStamp == [tz |-> "none", ts |-> 0]
NoKpi   == [count |-> 0, total_volume |-> 0, average_price |-> NaN,
            shown |-> << >>]

\* The names of the script, before a run binds them.
Unbound ==
    /\ df = NoFrame
    /\ validity_options = << >> /\ validity_filter = {}
    /\ min_date = 0 /\ max_date = 0
    /\ start_date = NoStamp /\ end_date = NoStamp
    /\ filtered_df = << >> /\ kpi = NoKpi /\ monthly_avg = << >>
    /\ heatmap_df = << >> /\ top_props = << >> /\ hist_df = << >>
    /\ yoy = << >> /\ table = << >>

\* Lines 16-28: load_data() behind st.cache_data, then the empty-frame stop.
LoadData ==
    /\ pc = "load"
    /\ \/ /\ cache = << >>
          /\ ColumnZone(db) = "mixed"
          /\ pc' = "error" /\ err' = "ValueError"
          /\ UNCHANGED <<cache, df>>
       \/ /\ cache = << >>
          /\ ColumnZone(db) # "mixed"
          /\ cache' = <<load_data(db)>>
          /\ df' = load_data(db)
          /\ pc' = IF db = << >> THEN "stopped" ELSE "sidebar"
          /\ UNCHANGED err
       \/ /\ cache # << >>
          /\ df' = cache[1]
          /\ pc' = IF cache[1].rows = << >> THEN "stopped" ELSE "sidebar"
          /\ UNCHANGED <<cache, err>>
    /\ UNCHANGED <<fixed, session, sidebar, outputs>>

-----------------------------------------------------------------------------
(* Sidebar filters                                                         *)

\* A widget's value as it would be if the default were returned on every run
WidgetValueDefaultOnly(stored, default) == default
\* A widget's value: what the user last set, or the default
WidgetValue(stored, default) == IF stored = << >> THEN default ELSE stored[1]

\* sorted(df['sale_validity'].dropna().unique().tolist())
ValidityOptions(frame) ==
    SortedStrings({frame.rows[i].sale_validity : i \in 1..Len(frame.rows)})

\* ['VALID'] if 'VALID' in validity_options else [validity_options[0]]
DefaultValidity(options) ==
    IF VALID \in Range(options) THEN {VALID} ELSE {options[1]}

\* df['sale_date'].min().date(), df['sale_date'].max().date()
MinDate(frame) == DateOf(Min({frame.rows[i].sale_date : i \in 1..Len(frame.rows)}))
MaxDate(frame) == DateOf(Max({frame.rows[i].sale_date : i \in 1..Len(frame.rows)}))

\* Lines 30-44
SidebarFilters ==
    /\ pc = "sidebar"
    /\ validity_options' = ValidityOptions(df)
    /\ validity_filter' =
           WidgetValue(session.validity, DefaultValidity(ValidityOptions(df)))
    /\ min_date' = MinDate(df)
    /\ max_date' = MaxDate(df)
    /\ start_date' = LocalizeUTC(WidgetValue(session.start, MinDate(df)))
    /\ end_date' = LocalizeUTC(WidgetValue(session.end, MaxDate(df)))
    /\ pc' = "filter"
    /\ UNCHANGED <<fixed, cache, session, err, df, outputs>>

-----------------------------------------------------------------------------
(* Filtered data                                                           *)

\* The mask of lines 47-51, one row
InFilter(r, lo, hi, validities) ==
    /\ r.sale_date >= lo.ts
    /\ r.sale_date <= hi.ts
    /\ r.sale_validity \in validities

FilterRows(rows, lo, hi, validities) ==
    LET Keep(r) == InFilter(r, lo, hi, validities)
    IN  SelectSeq(rows, Keep)

\* Lines 46-51. A zone-naive column compared with a zone-aware Timestamp
\* raises TypeError.
FilterData ==
    /\ pc = "filter"
    /\ \/ /\ df.tz # start_date.tz
          /\ pc' = "error" /\ err' = "TypeError"
          /\ UNCHANGED filtered_df
       \/ /\ df.tz = start_date.tz
          /\ filtered_df' = FilterRows(df.rows, start_date, end_date,
                                       validity_filter)
          /\ pc' = "kpi"
          /\ UNCHANGED err
    /\ UNCHANGED <<fixed, cache, session, df, sidebar, kpi, monthly_avg,
                   heatmap_df, top_props, hist_df, yoy, table>>

-----------------------------------------------------------------------------
(* Grouping and sorting                                                    *)

\* groupby(key)['price'].mean(): one [key, price] per key that occurs, the
\* keys ascending. keyed is a sequence of [k, price].
GroupMean(keyed) ==
    LET keys == SetToSortedSeq({keyed[i].k : i \in 1..Len(keyed)})
        Of(k) == LET Same(e) == e.k = k IN SelectSeq(keyed, Same)
    IN  [i \in 1..Len(keys) |->
            [k |-> keys[i], price |-> SeriesMean(Prices(Of(keys[i])))]]

RECURSIVE ConcatGroups(_, _)
\* The elements of keyed whose key is keys[n], keys[n-1], ..., keys[1], each
\* group in the order of keyed.
ConcatGroups(keyed, keys) ==
    IF keys = << >> THEN << >>
    ELSE LET k == keys[Len(keys)]
             Same(e) == e.k = k
         IN  SelectSeq(keyed, Same)
                 \o ConcatGroups(keyed, SubSeq(keys, 1, Len(keys) - 1))

\* Sorted by k descending, equal keys in their original order.
SortDescStable(keyed) ==
    ConcatGroups(keyed, SetToSortedSeq({keyed[i].k : i \in 1..Len(keyed)}))

SwapAt(s, i) ==
    [j \in 1..Len(s) |-> IF j = i THEN s[i + 1] ELSE IF j = i + 1 THEN s[i]
                         ELSE s[j]]

\* sort_values(ascending=False) with the default kind="quicksort", which is
\* not a stable sort. NumPy's quicksort partitions a run of more than 17
\* elements and finishes shorter runs by insertion, so up to 17 elements come
\* out in the stable order; beyond that the order of equal keys is a property
\* of the installed sort, the same on every call. The sorts modelled are the
\* stable one and two that exchange one pair of neighbours with equal keys,
\* the first such pair or the last.
SortKinds == {"stable", "first-tie", "last-tie"}

SortDesc(keyed) ==
    LET st    == SortDescStable(keyed)
        spots == {j \in 1..(Len(st) - 1) : st[j].k = st[j + 1].k}
    IN  IF sort_kind = "stable" \/ Len(st) <= 17 \/ spots = {} THEN st
        ELSE IF sort_kind = "first-tie" THEN SwapAt(st, Min(spots))
        ELSE SwapAt(st, Max(spots))

-----------------------------------------------------------------------------
(* KPI metrics                                                             *)

\* f"{x:,.0f}": the number shown, rounded to no decimals
Shown(x) == FloatRound(x, 1)

\* The summary as it would be if taken over the whole frame
SummarizeWholeFrame(view) ==
    [count         |-> Len(df.rows),
     total_volume  |-> SeriesSum(Prices(df.rows)),
     average_price |-> SeriesMean(Prices(df.rows)),
     shown         |-> <<Len(df.rows),
                         Shown(Frac(SeriesSum(Prices(df.rows)), 1)),
                         Shown(SeriesMean(Prices(df.rows)))>>]

Summarize(view) ==
    [count         |-> Len(view),
     total_volume  |-> SeriesSum(Prices(view)),
     average_price |-> SeriesMean(Prices(view)),
     shown         |-> <<Len(view),
                         Shown(Frac(SeriesSum(Prices(view)), 1)),
                         Shown(SeriesMean(Prices(view)))>>]

\* Lines 55-59
KpiMetrics ==
    /\ pc = "kpi"
    /\ kpi' = Summarize(filtered_df)
    /\ pc' = "monthly"
    /\ UNCHANGED <<fixed, cache, session, err, df, sidebar, filtered_df,
                   monthly_avg, heatmap_df, top_props, hist_df, yoy, table>>

-----------------------------------------------------------------------------
(* Monthly average price                                                   *)

\* .dt.month in the place of .dt.to_period("M")
PeriodOfMonthOnly(ts) == MonthOf(ts) - 1
\* .dt.to_period("M") as the count of months since year 0
PeriodOf(ts) == ts \div (2 * 31)

RECURSIVE Digits(_, _)
\* n in decimal, zero-padded to width characters
Digits(n, width) ==
    IF width = 0 THEN << >>
    ELSE Append(Digits(n \div 10, width - 1), CharOf(48 + (n % 10)))

\* str(Period), freq "M": "YYYY-MM"
PeriodStr(p) == Digits(p \div 12, 4) \o <<"-">> \o Digits((p % 12) + 1, 2)

MonthlyAvg(view) ==
    LET g == GroupMean([i \in 1..Len(view) |->
                           [k |-> PeriodOf(view[i].sale_date),
                            price |-> view[i].price]])
    IN  [i \in 1..Len(g) |->
            [sale_date |-> PeriodStr(g[i].k), price |-> g[i].price]]

\* Lines 63-78
MonthlyAverage ==
    /\ pc = "monthly"
    /\ monthly_avg' = MonthlyAvg(filtered_df)
    /\ pc' = "heatmap"
    /\ UNCHANGED <<fixed, cache, session, err, df, sidebar, filtered_df, kpi,
                   heatmap_df, top_props, hist_df, yoy, table>>

-----------------------------------------------------------------------------
(* Heatmap                                                                 *)

\* groupby(['year', 'month']): the pairs ascending, year first
HeatmapDf(view) ==
    LET g == GroupMean([i \in 1..Len(view) |->
                           [k |-> YearOf(view[i].sale_date) * 12
                                    + (MonthOf(view[i].sale_date) - 1),
                            price |-> view[i].price]])
    IN  [i \in 1..Len(g) |->
            [year  |-> g[i].k \div 12,
             month |-> (g[i].k % 12) + 1,
             price |-> g[i].price]]

\* Lines 80-96
Heatmap ==
    /\ pc = "heatmap"
    /\ heatmap_df' = HeatmapDf(filtered_df)
    /\ pc' = "top"
    /\ UNCHANGED <<fixed, cache, session, err, df, sidebar, filtered_df, kpi,
                   monthly_avg, top_props, hist_df, yoy, table>>

-----------------------------------------------------------------------------
(* Most frequently sold properties                                         *)

\* value_counts() before its sort: one entry per distinct property_id in the
\* order first met, with the number of rows that have it
CountsOf(view) ==
    LET ids == UniqueOf([i \in 1..Len(view) |-> view[i].property_id])
    IN  [i \in 1..Len(ids) |->
            [k |-> Cardinality({j \in 1..Len(view) :
                                  view[j].property_id = ids[i]}),
             property_id |-> ids[i]]]

\* .tail(n) in the place of .head(n)
TopFrameTail(sorted, n) ==
    LET h == SubSeq(sorted, IF Len(sorted) > n THEN Len(sorted) - n + 1 ELSE 1,
                    Len(sorted))
    IN  [i \in 1..Len(h) |->
            [property_id |-> h[i].property_id, sales_count |-> h[i].k]]

\* .head(n).reset_index() with the columns renamed
TopFrame(sorted, n) ==
    LET h == HeadN(sorted, n)
    IN  [i \in 1..Len(h) |->
            [property_id |-> h[i].property_id, sales_count |-> h[i].k]]

\* Lines 98-102
TopProperties ==
    /\ pc = "top"
    /\ top_props' = TopFrame(SortDesc(CountsOf(filtered_df)), TopN)
    /\ pc' = "hist"
    /\ UNCHANGED <<fixed, cache, session, err, df, sidebar, filtered_df, kpi,
                   monthly_avg, heatmap_df, hist_df, yoy, table>>

-----------------------------------------------------------------------------
(* Histogram                                                               *)

HistDf(view) ==
    LET Below(r) == r.price < HistCutoff IN SelectSeq(view, Below)

\* Lines 104-112
Histogram ==
    /\ pc = "hist"
    /\ hist_df' = HistDf(filtered_df)
    /\ pc' = "yoy"
    /\ UNCHANGED <<fixed, cache, session, err, df, sidebar, filtered_df, kpi,
                   monthly_avg, heatmap_df, top_props, yoy, table>>

-----------------------------------------------------------------------------
(* Year-over-year change                                                   *)

\* Each value over the one before it, without the "minus 1"
PctChangeRatio(values) ==
    [i \in 1..Len(values) |->
        IF i = 1 THEN NaN ELSE FloatDiv(values[i], values[i - 1])]

\* Series.pct_change(): each value over the one before it, minus 1; nothing
\* precedes the first
PctChange(values) ==
    [i \in 1..Len(values) |->
        IF i = 1 THEN NaN
        ELSE FloatMinusOne(FloatDiv(values[i], values[i - 1]))]

YoY(view) ==
    LET g == GroupMean([i \in 1..Len(view) |->
                           [k |-> YearOf(view[i].sale_date),
                            price |-> view[i].price]])
        pct == PctChange([i \in 1..Len(g) |-> g[i].price])
    IN  [i \in 1..Len(g) |->
            [year       |-> g[i].k,
             YoY_Change |-> FloatRound(FloatTimes(pct[i], 100), 100)]]

\* Lines 114-126
YearOverYear ==
    /\ pc = "yoy"
    /\ yoy' = YoY(filtered_df)
    /\ pc' = "table"
    /\ UNCHANGED <<fixed, cache, session, err, df, sidebar, filtered_df, kpi,
                   monthly_avg, heatmap_df, top_props, hist_df, table>>

-----------------------------------------------------------------------------
(* Sales table                                                             *)

SalesTableOf(view) ==
    LET sorted == SortDesc([i \in 1..Len(view) |->
                              [k |-> view[i].sale_date, row |-> view[i]]])
    IN  HeadN([i \in 1..Len(sorted) |-> sorted[i].row], TableLimit)

\* Lines 128-135
SalesTable ==
    /\ pc = "table"
    /\ table' = SalesTableOf(filtered_df)
    /\ pc' = "done"
    /\ UNCHANGED <<fixed, cache, session, err, df, sidebar, filtered_df, kpi,
                   monthly_avg, heatmap_df, top_props, hist_df, yoy>>

-----------------------------------------------------------------------------
(* The user                                                                *)

\* The sidebar's widgets exist once the sidebar block has run.
WidgetsShown == pc = "done" \/ (pc = "error" /\ err = "TypeError")

\* A rerun executes the script from its first line with fresh names.
Restart ==
    /\ pc' = "load" /\ err' = ""
    /\ df' = NoFrame
    /\ validity_options' = << >> /\ validity_filter' = {}
    /\ min_date' = 0 /\ max_date' = 0
    /\ start_date' = NoStamp /\ end_date' = NoStamp
    /\ filtered_df' = << >> /\ kpi' = NoKpi /\ monthly_avg' = << >>
    /\ heatmap_df' = << >> /\ top_props' = << >> /\ hist_df' = << >>
    /\ yoy' = << >> /\ table' = << >>
    /\ UNCHANGED <<fixed, cache>>

\* The days the date pickers are offered here: the days on which a sale falls
\* (all of them within min_value..max_value).
DateChoices == {DateOf(df.rows[i].sale_date) : i \in 1..Len(df.rows)}

\* st.sidebar.multiselect("Sale Validity", ...): the user changes the selection
SelectValidity ==
    /\ WidgetsShown
    /\ \E chosen \in SUBSET Range(validity_options) :
          /\ chosen # validity_filter
          /\ session' = [session EXCEPT !.validity = <<chosen>>]
    /\ Restart

\* st.sidebar.date_input("Start Date", ...): the user picks another day
PickStartDate ==
    /\ WidgetsShown
    /\ \E day \in DateChoices :
          /\ LocalizeUTC(day) # start_date
          /\ session' = [session EXCEPT !.start = <<day>>]
    /\ Restart

\* st.sidebar.date_input("End Date", ...): the user picks another day
PickEndDate ==
    /\ WidgetsShown
    /\ \E day \in DateChoices :
          /\ LocalizeUTC(day) # end_date
          /\ session' = [session EXCEPT !.end = <<day>>]
    /\ Restart

\* The user reruns the page as it is.
Rerun ==
    /\ pc \in {"done", "error", "stopped"}
    /\ UNCHANGED session
    /\ Restart

-----------------------------------------------------------------------------
(* Tables the database file may hold                                       *)

Text(y, m, d, h, off) == [y |-> y, m |-> m, d |-> d, h |-> h, off |-> off]

RawRow(pid, date, price, validity) ==
    [property_id |-> pid, sale_date |-> date, price |-> price,
     tax_year |-> date.y, sale_validity |-> validity]

Invalid == <<"I", "n", "v", "a", "l", "i", "d">>
INVALID == <<"I", "N", "V", "A", "L", "I", "D">>

\* sale_validity as stored: NULL, empty, blank, padded lower case, canonical,
\* mixed case
RawValidities ==
    { << >>, << << >> >>, << <<" ">> >>,
      << <<" ", "v", "a", "l", "i", "d", " ">> >>, <<VALID>>, <<Invalid>> }

Jan15     == Text(2021, 1, 15, 0, "Z")
Jan15Noon == Text(2021, 1, 15, 1, "Z")
Feb20     == Text(2021, 2, 20, 0, "Z")
Feb25     == Text(2021, 2, 25, 0, "Z")
Jun2019   == Text(2019, 6, 10, 0, "Z")
Mar2020   == Text(2020, 3, 5, 0, "Z")
Jan15Bare == Text(2021, 1, 15, 0, "")
Feb20Bare == Text(2021, 2, 20, 0, "")

\* The sequences over S of length 1..n
SeqsUpTo(S, n) == UNION {[1..k -> S] : k \in 1..n}

\* Tables that differ in how sale_validity is stored
ValidityTables ==
    SeqsUpTo({RawRow(1, Jan15, 100, v) : v \in RawValidities}, MaxRows)

\* Tables that differ in the instants and the validity of their sales
FilterTables ==
    SeqsUpTo({RawRow(1, t, 100, <<v>>) :
                 t \in {Jan15, Jan15Noon, Feb20}, v \in {VALID, Invalid}},
             MaxRows)

\* Tables that differ in the years and the prices of their sales
PriceTables ==
    SeqsUpTo({RawRow(1, t, p, <<VALID>>) :
                 t \in {Jun2019, Mar2020, Jan15}, p \in {0, 100, 150}},
             MaxRows)

\* Tables of many properties sold once, a few of them sold again
RECURSIVE OncEach(_)
OncEach(k) ==
    IF k = 0 THEN << >>
    ELSE Append(OncEach(k - 1), RawRow(k, Jan15, 100, <<VALID>>))

PropertyTables ==
    {OncEach(k) \o again :
        k \in (TopN - 1)..MaxProps,
        again \in {<< >>} \cup
                  SeqsUpTo({RawRow(q, Jan15, 100, <<VALID>>) :
                               q \in {1, TopN - 1}}, MaxRows)}

\* Single tables: the specification's example, four sales over three years,
\* a price at the histogram's cutoff, stored dates without a zone offset,
\* stored dates of both forms, and no rows
ExampleTable ==
    << RawRow(1, Jan15, 100, <<VALID>>), RawRow(2, Feb20, 300, <<VALID>>),
       RawRow(3, Feb25, 200, <<INVALID>>) >>

SingleTables ==
    { ExampleTable,
      << RawRow(1, Jun2019, 100, <<VALID>>), RawRow(2, Mar2020, 150, <<VALID>>),
         RawRow(1, Jan15, 100, <<VALID>>), RawRow(2, Feb20, 150, <<VALID>>) >>,
      << RawRow(1, Jan15, HistCutoff, <<VALID>>),
         RawRow(2, Jan15, 100, <<VALID>>) >>,
      << RawRow(1, Jan15Bare, 100, <<VALID>>) >>,
      << RawRow(1, Jan15Bare, 100, <<VALID>>),
         RawRow(2, Feb20Bare, 300, << >>) >>,
      << RawRow(1, Jan15Bare, 100, <<VALID>>),
         RawRow(2, Feb20, 300, <<VALID>>) >>,
      << >> }

Tables ==
    ValidityTables \cup FilterTables \cup PriceTables \cup PropertyTables
        \cup SingleTables

-----------------------------------------------------------------------------
(* The dashboard                                                           *)

Init ==
    /\ db \in Tables
    \* the sorts differ only on more than 17 elements
    /\ sort_kind \in (IF Len(db) > 17 THEN SortKinds ELSE {"stable"})
    /\ cache = << >>
    /\ session = [validity |-> << >>, start |-> << >>, end |-> << >>]
    /\ pc = "load" /\ err = ""
    /\ Unbound

Next ==
    \/ LoadData
    \/ SidebarFilters
    \/ FilterData
    \/ KpiMetrics
    \/ MonthlyAverage
    \/ Heatmap
    \/ TopProperties
    \/ Histogram
    \/ YearOverYear
    \/ SalesTable
    \/ SelectValidity
    \/ PickStartDate
    \/ PickEndDate
    \/ Rerun

Spec == Init /\ [][Next]_vars

-----------------------------------------------------------------------------
(* What the claims speak of, stated on the frames themselves               *)

Stages == <<"load", "sidebar", "filter", "kpi", "monthly", "heatmap", "top",
            "hist", "yoy", "table", "done">>

\* The block has run to its end in this run of the script.
Ran(block) ==
    \E i, j \in 1..Len(Stages) : Stages[i] = block /\ Stages[j] = pc /\ i < j

\* load_data() has returned in this run.
Loaded == pc # "load" /\ err # "ValueError"

RECURSIVE PriceTotal(_, _)
\* The sum of price over the rows at the positions in I
PriceTotal(rows, I) ==
    IF I = {} THEN 0
    ELSE LET i == CHOOSE x \in I : TRUE
         IN  rows[i].price + PriceTotal(rows, I \ {i})

\* The positions of the loaded rows that the criteria include
ViewIndices ==
    {i \in 1..Len(df.rows) :
        /\ start_date.ts <= df.rows[i].sale_date
        /\ df.rows[i].sale_date <= end_date.ts
        /\ df.rows[i].sale_validity \in validity_filter}

\* The filtered view holds exactly the included rows, in the frame's order.
ViewIsExact ==
    LET at == SetToSortedSeq(ViewIndices)
    IN  /\ filtered_df = [j \in 1..Len(at) |-> df.rows[at[j]]]
        /\ validity_filter = {} => filtered_df = << >>
        /\ start_date.ts > end_date.ts => filtered_df = << >>

\* C1: for every table and all criteria, filtering raises nothing and the
\* view holds a row exactly if start_date <= sale_date <= end_date (both ends
\* included) and its sale_validity is one of the selected; the view is empty
\* when nothing is selected and when start_date is after end_date.
C1_FilterTotalAndExact ==
    /\ err # "TypeError"
    /\ Ran("filter") => ViewIsExact

\* What does hold of the filter: whenever it returns, its view is exact.
FilterExactWhenItReturns == Ran("filter") => ViewIsExact

\* C2: when the filter's comparison runs, the sale_date column and both bounds
\* are UTC-aware, whatever form the stored sale_date texts have.
C2_OneZoneAtComparison ==
    pc = "filter" =>
        df.tz = "UTC" /\ start_date.tz = "UTC" /\ end_date.tz = "UTC"

\* C3: after normalization every row's sale_validity is non-empty, has no
\* surrounding whitespace, has no lower-case letter, and is "UNKNOWN" where the
\* stored value was NULL; the option list is built from such values only.
C3_ValidityCanonical ==
    /\ Loaded =>
          \A i \in 1..Len(df.rows) :
              LET v == df.rows[i].sale_validity
              IN  /\ v # << >>
                  /\ ~IsSpace(v[1]) /\ ~IsSpace(v[Len(v)])
                  /\ \A j \in 1..Len(v) : ~IsLower(v[j])
                  /\ db[i].sale_validity = << >>
                        => v = <<"U", "N", "K", "N", "O", "W", "N">>
    /\ Ran("sidebar") =>
          \A k \in 1..Len(validity_options) : validity_options[k] # << >>

C5_EmptyView ==
    (Ran("filter") /\ filtered_df = << >>) =>
        /\ err = ""
        /\ Ran("kpi") => /\ kpi.count = 0 /\ kpi.total_volume = 0
                         /\ kpi.average_price = NaN
        /\ Ran("monthly") => monthly_avg = << >>
        /\ Ran("heatmap") => heatmap_df = << >>
        /\ Ran("top") => top_props = << >>
        /\ Ran("yoy") => yoy = << >>
        /\ Ran("table") => table = << >>

C5_Witness ==
    /\ pc = "done" /\ filtered_df = << >>
    /\ validity_filter # {} /\ start_date.ts > end_date.ts
    /\ kpi.average_price = NaN

\* The years with a sale in the view, ascending, and each year's rows
ViewYears ==
    SetToSortedSeq({YearOf(filtered_df[i].sale_date) :
                        i \in 1..Len(filtered_df)})
YearIdx(y) ==
    {i \in 1..Len(filtered_df) : YearOf(filtered_df[i].sale_date) = y}
YearSum(y) == PriceTotal(filtered_df, YearIdx(y))
YearCnt(y) == Cardinality(YearIdx(y))

\* x is exactly 100 * (a - b) / b for the averages a = sa/na and b = sb/nb.
IsExactChange(x, sa, na, sb, nb) ==
    /\ x.kind = "num"
    /\ x.num * (sb * na) = x.den * (100 * (sa * nb - sb * na))

\* x is 100 * (a - b) / b rounded to two decimals, a tie to the even digit.
IsRoundedChange(x, sa, na, sb, nb) ==
    LET N == 10000 * (sa * nb - sb * na)
        D == sb * na
        H == (x.num * 100) \div x.den
    IN  /\ x.kind = "num"
        /\ 100 % x.den = 0
        /\ 2 * Abs(H * D - N) <= D
        /\ 2 * Abs(H * D - N) = D => H % 2 = 0

\* The year-over-year frame has one entry per year of the view, ascending,
\* the first without a change; each later change is the quotient of its
\* year's and the preceding entry's average, exact or rounded, when that
\* average is not zero, and over a zero average it is the float quotient:
\* +inf, or NaN for 0 / 0.
YoYShape(rounded) ==
    /\ Len(yoy) = Len(ViewYears)
    /\ \A i \in 1..Len(yoy) : yoy[i].year = ViewYears[i]
    /\ Len(yoy) > 0 => yoy[1].YoY_Change = NaN
    /\ \A i \in 2..Len(yoy) :
          LET y == ViewYears[i]
              b == ViewYears[i - 1]
          IN  IF YearSum(b) = 0
              THEN yoy[i].YoY_Change = (IF YearSum(y) = 0 THEN NaN ELSE Inf)
              ELSE IF rounded
              THEN IsRoundedChange(yoy[i].YoY_Change, YearSum(y), YearCnt(y),
                                   YearSum(b), YearCnt(b))
              ELSE IsExactChange(yoy[i].YoY_Change, YearSum(y), YearCnt(y),
                                 YearSum(b), YearCnt(b))

\* C6 as stated: one entry per year with a sale, ascending; the first change
\* is "not applicable"; each later one equals
\* (avg[year] - avg[preceding entry]) / avg[preceding entry] * 100, the
\* preceding entry being the nearest earlier year with a sale.
C6_ExactChange == Ran("yoy") => YoYShape(FALSE)

\* C6 as amended: the same, each later change being that quotient rounded to
\* two decimals (and +inf or NaN over a zero average); averages 100 in 2020
\* and 150 in 2021 give [(2020, NaN), (2021, 50.0)].
C6_RoundedChange ==
    Ran("yoy") =>
        /\ YoYShape(TRUE)
        /\ ( /\ ViewYears = <<2020, 2021>>
             /\ YearSum(2020) = 100 * YearCnt(2020)
             /\ YearSum(2021) = 150 * YearCnt(2021) )
           => yoy = << [year |-> 2020, YoY_Change |-> NaN],
                       [year |-> 2021,
                        YoY_Change |-> [kind |-> "num", num |-> 50,
                                        den |-> 1]] >>

C6_Witness ==
    /\ Ran("yoy")
    /\ \E i \in 2..Len(yoy) :
          /\ yoy[i].year - yoy[i - 1].year > 1
          /\ yoy[i].YoY_Change.kind = "num"
          /\ yoy[i].YoY_Change.den = 100

\* C7: where the preceding entry's average price is zero, the change is an
\* explicit undefined value, never zero and never an infinity.
C7_ZeroBaseUndefined ==
    Ran("yoy") =>
        \A i \in 2..Len(yoy) :
            YearSum(ViewYears[i - 1]) = 0 => yoy[i].YoY_Change = NaN

\* The properties of the view, each one's sales and its first position
ViewIds == {filtered_df[i].property_id : i \in 1..Len(filtered_df)}
SalesOf(p) ==
    Cardinality({i \in 1..Len(filtered_df) : filtered_df[i].property_id = p})
FirstSale(p) ==
    Min({i \in 1..Len(filtered_df) : filtered_df[i].property_id = p})

\* min(10, distinct properties) entries, each a property of the view with its
\* number of sales, no property twice, the counts descending, and no property
\* left out sold more often than one returned.
TopShape ==
    LET returned == {top_props[i].property_id : i \in 1..Len(top_props)}
    IN  /\ Len(top_props) = IF Cardinality(ViewIds) < TopN
                            THEN Cardinality(ViewIds) ELSE TopN
        /\ \A i \in 1..Len(top_props) :
              /\ top_props[i].property_id \in ViewIds
              /\ top_props[i].sales_count = SalesOf(top_props[i].property_id)
        /\ \A i, j \in 1..Len(top_props) :
              i < j => /\ top_props[i].property_id # top_props[j].property_id
                       /\ top_props[i].sales_count >= top_props[j].sales_count
        /\ \A p \in ViewIds \ returned : \A i \in 1..Len(top_props) :
              top_props[i].sales_count >= SalesOf(p)

\* C8 as stated: the shape above, and properties with equal counts in the
\* order in which the view first meets them.
C8_TiesInFirstMetOrder ==
    Ran("top") =>
        /\ TopShape
        /\ \A i, j \in 1..Len(top_props) :
              (i < j /\ top_props[i].sales_count = top_props[j].sales_count)
                  => FirstSale(top_props[i].property_id)
                         < FirstSale(top_props[j].property_id)

\* C8 as amended: the shape above; the order among equal counts is not fixed.
C8_TopProperties == Ran("top") => TopShape

C8_Witness ==
    /\ Ran("top")
    /\ sort_kind # "stable"
    /\ Cardinality(ViewIds) > TopN
    /\ top_props[1].sales_count > top_props[TopN].sales_count

\* The months with a sale in the view, ascending (as months since year 0),
\* and each month's rows
MonthKey(ts) == YearOf(ts) * 12 + (MonthOf(ts) - 1)
ViewMonths ==
    SetToSortedSeq({MonthKey(filtered_df[i].sale_date) :
                        i \in 1..Len(filtered_df)})
MonthIdx(k) ==
    {i \in 1..Len(filtered_df) : MonthKey(filtered_df[i].sale_date) = k}

\* The month a label "YYYY-MM" names
LabelKey(s) ==
    LET v(i) == CharCode(s[i]) - 48
    IN  (v(1) * 1000 + v(2) * 100 + v(3) * 10 + v(4)) * 12
            + (v(6) * 10 + v(7) - 1)

\* C9: the monthly trend has one entry per year-month with a sale and no
\* other, labelled "YYYY-MM", its value the average price of that month's
\* rows; the labels ascend strictly; the months' rows add up to the view. The
\* sales (2021-01-15, 100) and (2021-02-20, 300) give
\* [("2021-01", 100), ("2021-02", 300)].
C9_MonthlyTrend ==
    Ran("monthly") =>
        /\ Len(monthly_avg) = Len(ViewMonths)
        /\ \A i \in 1..Len(monthly_avg) :
              LET e == monthly_avg[i]
                  rows == MonthIdx(ViewMonths[i])
              IN  /\ Len(e.sale_date) = 7 /\ e.sale_date[5] = "-"
                  /\ LabelKey(e.sale_date) = ViewMonths[i]
                  /\ e.price.kind = "num"
                  /\ e.price.num * Cardinality(rows)
                         = PriceTotal(filtered_df, rows) * e.price.den
        /\ \A i \in 1..(Len(monthly_avg) - 1) :
              StrLess(monthly_avg[i].sale_date, monthly_avg[i + 1].sale_date)
        /\ SumSeq([i \in 1..Len(monthly_avg) |->
                      Cardinality(MonthIdx(LabelKey(monthly_avg[i].sale_date)))])
               = Len(filtered_df)
        /\ filtered_df =
              << [property_id |-> 1, sale_date |-> Stamp(2021, 1, 15, 0),
                  price |-> 100, tax_year |-> 2021, sale_validity |-> VALID],
                 [property_id |-> 2, sale_date |-> Stamp(2021, 2, 20, 0),
                  price |-> 300, tax_year |-> 2021, sale_validity |-> VALID] >>
           => monthly_avg =
                 << [sale_date |-> <<"2", "0", "2", "1", "-", "0", "1">>,
                     price |-> [kind |-> "num", num |-> 100, den |-> 1]],
                    [sale_date |-> <<"2", "0", "2", "1", "-", "0", "2">>,
                     price |-> [kind |-> "num", num |-> 300, den |-> 1]] >>

C9_Witness ==
    /\ Ran("monthly")
    /\ Len(monthly_avg) >= 2
    /\ Len(filtered_df) > Len(monthly_avg)

\* C10: over any sequence of reruns the loaded frame stays what load_data()
\* made of the table, and when a run ends, the view and every aggregate are
\* what the table and the widgets' current values give, whatever was selected
\* or shown before.
C10_RunsDependOnInputsOnly ==
    /\ cache \in {<< >>, <<load_data(db)>>}
    /\ Loaded => df = load_data(db)
    /\ pc = "done" =>
          LET frame == load_data(db)
              chosen == IF session.validity = << >>
                        THEN DefaultValidity(ValidityOptions(frame))
                        ELSE session.validity[1]
              lo == LocalizeUTC(IF session.start = << >> THEN MinDate(frame)
                                ELSE session.start[1])
              hi == LocalizeUTC(IF session.end = << >> THEN MaxDate(frame)
                                ELSE session.end[1])
              view == FilterRows(frame.rows, lo, hi, chosen)
          IN  /\ filtered_df = view
              /\ kpi = Summarize(view)
              /\ monthly_avg = MonthlyAvg(view)
              /\ heatmap_df = HeatmapDf(view)
              /\ top_props = TopFrame(SortDesc(CountsOf(view)), TopN)
              /\ hist_df = HistDf(view)
              /\ yoy = YoY(view)
              /\ table = SalesTableOf(view)

C10_Witness ==
    /\ pc = "done"
    /\ session.validity # << >> /\ session.end # << >>
    /\ filtered_df # << >> /\ Len(filtered_df) < Len(df.rows)

====
